---- MODULE Spec2Model ----
(***************************************************************************)
(* The Word sub-state of the hush lexer automaton                          *)
(* (src/src/lexer/automata/word.rs) under the automaton's driver loop.     *)
(*                                                                         *)
(* Bytes are integers 0..255, buffers are sequences of bytes.  Offsets are *)
(* zero-based as in the source: the byte at offset k is buffer[k + 1].     *)
(* Word::visit, Word::to_token, Word::at and the IsWord predicates are     *)
(* translated from word.rs.  Cursor, Transition, Root, the sibling         *)
(* sub-states, the SymbolInterner and the driver loop are not in word.rs;  *)
(* they are modelled from their interface as the design document gives it. *)
(***************************************************************************)
EXTENDS Integers, Sequences, FiniteSets, TLC

VARIABLES
    buffer,     \* Cursor.buffer: the source text being lexed
    offset,     \* Cursor.offset
    state,      \* the automaton state: Root, Word{start_offset, pos} or a sibling
    interner,   \* SymbolInterner: the texts interned so far, handle = index
    output,     \* the tokens surfaced to the driver for the current buffer
    panic,      \* "none", or the reason the lex pass aborted
    runs,       \* how many buffers this session has started lexing
    spans,      \* history: for each token of output, the slice it was made from
    entered,    \* history: the offset at which Root last entered a sub-state
    first,      \* history: the offset at which that sub-state was first visited
    classified, \* history: every Word token of the session, with its source text
    steps,      \* history: Step transitions returned by the current Word state
    last        \* history: what the driver's last iteration did

vars == <<buffer, offset, state, interner, output, panic, runs,
          spans, entered, first, classified, steps, last>>

----------------------------------------------------------------------------
(* Bounds of the model.                                                    *)

\* Longest generated buffer (the named samples below may be longer).
MaxLen == 2

\* Number of buffers lexed in one session, with one interner.
MaxRuns == 2

----------------------------------------------------------------------------
(* Bytes and text.                                                         *)

Lower == <<"a","b","c","d","e","f","g","h","i","j","k","l","m",
           "n","o","p","q","r","s","t","u","v","w","x","y","z">>
Upper == <<"A","B","C","D","E","F","G","H","I","J","K","L","M",
           "N","O","P","Q","R","S","T","U","V","W","X","Y","Z">>
Digit == <<"0","1","2","3","4","5","6","7","8","9">>

\* The ASCII code of a one-character string.
Ord(c) ==
    IF \E i \in 1..26 : Lower[i] = c THEN 96 + (CHOOSE i \in 1..26 : Lower[i] = c)
    ELSE IF \E i \in 1..26 : Upper[i] = c THEN 64 + (CHOOSE i \in 1..26 : Upper[i] = c)
    ELSE IF \E i \in 1..10 : Digit[i] = c THEN 47 + (CHOOSE i \in 1..10 : Digit[i] = c)
    ELSE IF c = "_" THEN 95
    ELSE IF c = ")" THEN 41
    ELSE IF c = " " THEN 32
    ELSE 10   \* "\n"

\* A byte string literal, b"...", written as a tuple of characters.
B(cs) == [i \in 1..Len(cs) |-> Ord(cs[i])]

w_let      == B(<<"l","e","t">>)
w_if       == B(<<"i","f">>)
w_then     == B(<<"t","h","e","n">>)
w_else     == B(<<"e","l","s","e">>)
w_end      == B(<<"e","n","d">>)
w_for      == B(<<"f","o","r">>)
w_in       == B(<<"i","n">>)
w_do       == B(<<"d","o">>)
w_while    == B(<<"w","h","i","l","e">>)
w_function == B(<<"f","u","n","c","t","i","o","n">>)
w_return   == B(<<"r","e","t","u","r","n">>)
w_break    == B(<<"b","r","e","a","k">>)
w_self     == B(<<"s","e","l","f">>)
w_nil      == B(<<"n","i","l">>)
w_true     == B(<<"t","r","u","e">>)
w_false    == B(<<"f","a","l","s","e">>)
w_not      == B(<<"n","o","t">>)
w_and      == B(<<"a","n","d">>)
w_or       == B(<<"o","r">>)

----------------------------------------------------------------------------
(* IsWord for u8 (word.rs 102-110).                                        *)

is_ascii_alphabetic(c) == (c >= 65 /\ c <= 90) \/ (c >= 97 /\ c <= 122)

is_ascii_alphanumeric(c) == is_ascii_alphabetic(c) \/ (c >= 48 /\ c <= 57)

\* Mutant: the start predicate a copy of the continuation predicate, digits
\* accepted.
is_word_start_alnum(c) == is_ascii_alphanumeric(c) \/ c = 95

is_word_start(c) == is_ascii_alphabetic(c) \/ c = 95

\* Mutant: char::is_alphanumeric instead of u8::is_ascii_alphanumeric, which
\* also accepts bytes above 127 (Latin-1 letters).
is_word_unicode(c) == is_ascii_alphanumeric(c) \/ c = 95 \/ c >= 192

\* Mutant: the continuation predicate a copy of the start predicate, digits
\* forgotten.
is_word_no_digit(c) == is_ascii_alphabetic(c) \/ c = 95

\* Mutant: the underscore forgotten in the continuation predicate.
is_word_no_underscore(c) == is_ascii_alphanumeric(c)

is_word(c) == is_ascii_alphanumeric(c) \/ c = 95

----------------------------------------------------------------------------
(* Cursor (interface: offset, pos, peek, slice).                           *)

\* SourcePos of the byte at offset off: its byte offset, line and column.
PosAt(buf, off) ==
    LET nl == {k \in 1..off : buf[k] = 10}
        lastnl == IF nl = {} THEN 0 ELSE CHOOSE k \in nl : \A j \in nl : j <= k
    IN  [offset |-> off, line |-> 1 + Cardinality(nl), column |-> off - lastnl]

\* cursor.peek(): Option<u8>, None as the empty sequence.
peek(buf, off) == IF off < Len(buf) THEN <<buf[off + 1]>> ELSE <<>>

----------------------------------------------------------------------------
(* Transition (interface: step, resume_produce).                            *)

Root == [tag |-> "Root", start_offset |-> 0, pos |-> PosAt(<<>>, 0)]

Transition_step(next, intern) ==
    [state |-> next, consume |-> TRUE, output |-> <<>>, slice |-> <<>>,
     interner |-> intern, panic |-> "none"]

Transition_resume_produce(outer, token, slice, intern) ==
    [state |-> outer, consume |-> FALSE, output |-> <<token>>, slice |-> <<slice>>,
     interner |-> intern, panic |-> "none"]

\* A panic inside a visit: no transition is returned, the lex pass aborts.
Abort(self, intern, why) ==
    [state |-> self, consume |-> FALSE, output |-> <<>>, slice |-> <<>>,
     interner |-> intern, panic |-> why]

----------------------------------------------------------------------------
(* SymbolInterner (interface: get_or_intern).                              *)

get_or_intern(intern, text) ==
    IF \E i \in 1..Len(intern) : intern[i] = text
    THEN [symbol |-> CHOOSE i \in 1..Len(intern) : intern[i] = text,
          interner |-> intern]
    ELSE [symbol |-> Len(intern) + 1, interner |-> Append(intern, text)]

----------------------------------------------------------------------------
(* std::str::from_utf8: whether the bytes are well-formed UTF-8.           *)

Cont(bs, i) == i <= Len(bs) /\ bs[i] >= 128 /\ bs[i] <= 191

RECURSIVE Utf8From(_, _)
Utf8From(bs, i) ==
    IF i > Len(bs) THEN TRUE
    ELSE LET b == bs[i] IN
      IF b <= 127 THEN Utf8From(bs, i + 1)
      ELSE IF b >= 194 /\ b <= 223 THEN Cont(bs, i + 1) /\ Utf8From(bs, i + 2)
      ELSE IF b >= 224 /\ b <= 239
        THEN /\ Cont(bs, i + 1) /\ Cont(bs, i + 2)
             /\ (b = 224 => bs[i + 1] >= 160)
             /\ (b = 237 => bs[i + 1] <= 159)
             /\ Utf8From(bs, i + 3)
      ELSE IF b >= 240 /\ b <= 244
        THEN /\ Cont(bs, i + 1) /\ Cont(bs, i + 2) /\ Cont(bs, i + 3)
             /\ (b = 240 => bs[i + 1] >= 144)
             /\ (b = 244 => bs[i + 1] <= 143)
             /\ Utf8From(bs, i + 4)
      ELSE FALSE

from_utf8_ok(bs) == Utf8From(bs, 1)

----------------------------------------------------------------------------
(* Word (word.rs 18-85).                                                   *)

\* Mutant: the state made after the trigger byte is consumed.
at_late(buf, off) ==
    [tag |-> "Word", start_offset |-> off + 1, pos |-> PosAt(buf, off + 1)]

\* Word::at: the offset and position of the cursor when the state is made.
at(buf, off) == [tag |-> "Word", start_offset |-> off, pos |-> PosAt(buf, off)]

Arm(word, kind, tag) == [word |-> word, kind |-> kind, tag |-> tag]

\* Mutant: a copy-and-paste slip in the arms, `end` producing Keyword::Else,
\* `false` producing Literal::True and `or` producing Operator::And.
MatchArmsSlip ==
    << Arm(w_let, "Keyword", "Let"),       Arm(w_if, "Keyword", "If"),
       Arm(w_then, "Keyword", "Then"),     Arm(w_else, "Keyword", "Else"),
       Arm(w_end, "Keyword", "Else"),      Arm(w_for, "Keyword", "For"),
       Arm(w_in, "Keyword", "In"),         Arm(w_do, "Keyword", "Do"),
       Arm(w_while, "Keyword", "While"),   Arm(w_function, "Keyword", "Function"),
       Arm(w_return, "Keyword", "Return"), Arm(w_break, "Keyword", "Break"),
       Arm(w_self, "Keyword", "Self_"),
       Arm(w_nil, "Literal", "Nil"),       Arm(w_true, "Literal", "True"),
       Arm(w_false, "Literal", "True"),
       Arm(w_not, "Operator", "Not"),      Arm(w_and, "Operator", "And"),
       Arm(w_or, "Operator", "And") >>

\* Mutant: `in` given a second arm, as a word operator, after the keyword arm.
MatchArmsDup ==
    << Arm(w_let, "Keyword", "Let"),       Arm(w_if, "Keyword", "If"),
       Arm(w_then, "Keyword", "Then"),     Arm(w_else, "Keyword", "Else"),
       Arm(w_end, "Keyword", "End"),       Arm(w_for, "Keyword", "For"),
       Arm(w_in, "Keyword", "In"),         Arm(w_do, "Keyword", "Do"),
       Arm(w_while, "Keyword", "While"),   Arm(w_function, "Keyword", "Function"),
       Arm(w_return, "Keyword", "Return"), Arm(w_break, "Keyword", "Break"),
       Arm(w_self, "Keyword", "Self_"),
       Arm(w_nil, "Literal", "Nil"),       Arm(w_true, "Literal", "True"),
       Arm(w_false, "Literal", "False"),
       Arm(w_not, "Operator", "Not"),      Arm(w_and, "Operator", "And"),
       Arm(w_or, "Operator", "Or"),        Arm(w_in, "Operator", "In") >>

\* The literal arms of the match in to_token, in source order.
MatchArms ==
    << Arm(w_let, "Keyword", "Let"),       Arm(w_if, "Keyword", "If"),
       Arm(w_then, "Keyword", "Then"),     Arm(w_else, "Keyword", "Else"),
       Arm(w_end, "Keyword", "End"),       Arm(w_for, "Keyword", "For"),
       Arm(w_in, "Keyword", "In"),         Arm(w_do, "Keyword", "Do"),
       Arm(w_while, "Keyword", "While"),   Arm(w_function, "Keyword", "Function"),
       Arm(w_return, "Keyword", "Return"), Arm(w_break, "Keyword", "Break"),
       Arm(w_self, "Keyword", "Self_"),
       Arm(w_nil, "Literal", "Nil"),       Arm(w_true, "Literal", "True"),
       Arm(w_false, "Literal", "False"),
       Arm(w_not, "Operator", "Not"),      Arm(w_and, "Operator", "And"),
       Arm(w_or, "Operator", "Or") >>

\* A TokenKind: Keyword(tag), Literal(tag), Operator(tag) or Identifier(symbol).
TokenKind(kind, tag, symbol) == [kind |-> kind, tag |-> tag, symbol |-> symbol]

\* Mutant: the identifier arm calling a plain `intern`, which allocates a new
\* symbol on every call, instead of get_or_intern.
identifier_fresh(ident, intern) ==
    IF ~from_utf8_ok(ident)
    THEN [token |-> TokenKind("Identifier", "", 0),
          interner |-> intern, panic |-> "utf8"]
    ELSE [token |-> TokenKind("Identifier", "", Len(intern) + 1),
          interner |-> Append(intern, ident), panic |-> "none"]

\* The identifier arm of to_token: the text must be UTF-8 (expect), and is
\* interned.
identifier(ident, intern) ==
    IF ~from_utf8_ok(ident)
    THEN [token |-> TokenKind("Identifier", "", 0),
          interner |-> intern, panic |-> "utf8"]
    ELSE LET r == get_or_intern(intern, ident)
         IN  [token |-> TokenKind("Identifier", "", r.symbol),
              interner |-> r.interner, panic |-> "none"]

\* The bytes with every ASCII upper-case letter made lower-case.
to_ascii_lowercase(bs) ==
    [i \in 1..Len(bs) |-> IF bs[i] >= 65 /\ bs[i] <= 90 THEN bs[i] + 32 ELSE bs[i]]

\* Mutant: the text interned before the match, for every word.
to_token_intern_first(word, intern) ==
    LET hits == {i \in 1..Len(MatchArms) : MatchArms[i].word = word}
        r == identifier(word, intern)
    IN  IF hits # {}
        THEN LET i == CHOOSE k \in hits : \A j \in hits : k <= j
             IN  [token |-> TokenKind(MatchArms[i].kind, MatchArms[i].tag, 0),
                  interner |-> r.interner, panic |-> r.panic]
        ELSE r

\* Mutant: the arms compared with eq_ignore_ascii_case.
to_token_ignore_case(word, intern) ==
    LET hits == {i \in 1..Len(MatchArms) :
                    MatchArms[i].word = to_ascii_lowercase(word)} IN
    IF hits # {}
    THEN LET i == CHOOSE k \in hits : \A j \in hits : k <= j
         IN  [token |-> TokenKind(MatchArms[i].kind, MatchArms[i].tag, 0),
              interner |-> intern, panic |-> "none"]
    ELSE identifier(word, intern)

\* Word::to_token: the first arm whose pattern equals the word, else the
\* identifier arm.
to_token(word, intern) ==
    LET hits == {i \in 1..Len(MatchArms) : MatchArms[i].word = word} IN
    IF hits # {}
    THEN LET i == CHOOSE k \in hits : \A j \in hits : k <= j
         IN  [token |-> TokenKind(MatchArms[i].kind, MatchArms[i].tag, 0),
              interner |-> intern, panic |-> "none"]
    ELSE identifier(word, intern)

\* Mutant: the slice taken from the byte after start_offset, as if the byte
\* Root consumed were not part of the word.
word_range_skip(self, off) == <<self.start_offset + 1, off>>

\* The range start_offset .. cursor.offset() that visit slices.
word_range(self, off) == <<self.start_offset, off>>

\* Mutant: Transition::produce, which consumes the byte under the cursor,
\* instead of Transition::resume_produce.
produce_consume(self, buf, off, intern) ==
    LET rg == word_range(self, off) IN
    IF ~(rg[1] <= rg[2] /\ rg[2] <= Len(buf))
    THEN Abort(self, intern, "slice")
    ELSE LET r == to_token(SubSeq(buf, rg[1] + 1, rg[2]), intern)
         IN  IF r.panic # "none"
             THEN Abort(self, intern, r.panic)
             ELSE [Transition_resume_produce(
                       Root, [token |-> r.token, pos |-> self.pos], rg, r.interner)
                   EXCEPT !.consume = off < Len(buf)]

\* Mutant: the token produced without leaving the sub-state, Word given as the
\* state to resume instead of Root.
produce_stay(self, buf, off, intern) ==
    LET rg == word_range(self, off) IN
    IF ~(rg[1] <= rg[2] /\ rg[2] <= Len(buf))
    THEN Abort(self, intern, "slice")
    ELSE LET r == to_token(SubSeq(buf, rg[1] + 1, rg[2]), intern)
         IN  IF r.panic # "none"
             THEN Abort(self, intern, r.panic)
             ELSE Transition_resume_produce(
                      self, [token |-> r.token, pos |-> self.pos], rg, r.interner)

\* Mutant: the token given the cursor's position when it is produced.
produce_pos_now(self, buf, off, intern) ==
    LET rg == word_range(self, off) IN
    IF ~(rg[1] <= rg[2] /\ rg[2] <= Len(buf))
    THEN Abort(self, intern, "slice")
    ELSE LET r == to_token(SubSeq(buf, rg[1] + 1, rg[2]), intern)
         IN  IF r.panic # "none"
             THEN Abort(self, intern, r.panic)
             ELSE Transition_resume_produce(
                      Root, [token |-> r.token, pos |-> PosAt(buf, off)],
                      rg, r.interner)

\* The produce arm of Word::visit: slice, classify, resume Root with the token.
\* Slicing out of range panics.
produce(self, buf, off, intern) ==
    LET rg == word_range(self, off) IN
    IF ~(rg[1] <= rg[2] /\ rg[2] <= Len(buf))
    THEN Abort(self, intern, "slice")
    ELSE LET r == to_token(SubSeq(buf, rg[1] + 1, rg[2]), intern)
         IN  IF r.panic # "none"
             THEN Abort(self, intern, r.panic)
             ELSE Transition_resume_produce(
                      Root, [token |-> r.token, pos |-> self.pos], rg, r.interner)

\* Word::visit.
visit(self, buf, off, intern) ==
    LET c == peek(buf, off) IN
    IF c # <<>> /\ is_word(c[1])
    THEN Transition_step(self, intern)
    ELSE produce(self, buf, off, intern)

----------------------------------------------------------------------------
(* Root and the sibling sub-states (interface only).                       *)

\* A sibling sub-state (number, string, punctuation ...), reduced to one that
\* takes a single byte and produces a token of another kind.
Other(buf, off) == [tag |-> "Other", start_offset |-> off, pos |-> PosAt(buf, off)]

\* Root: dispatch on the byte under the cursor; Word is entered only on a
\* word-start byte.  Entering a sub-state is a Step: the trigger byte is consumed.
Root_visit(buf, off, intern) ==
    LET c == peek(buf, off) IN
    IF is_word_start(c[1])
    THEN Transition_step(at(buf, off), intern)
    ELSE Transition_step(Other(buf, off), intern)

Other_visit(self, buf, off, intern) ==
    Transition_resume_produce(
        Root, [token |-> TokenKind("Other", "", 0), pos |-> self.pos],
        <<self.start_offset, off>>, intern)

----------------------------------------------------------------------------
(* The buffers a session may lex.                                          *)

\* Bytes the generated buffers are made of: `a`, `1`, `)`; the samples below
\* bring `_`, upper case, white space and bytes above 127.
Alphabet == {97, 49, 41}

RECURSIVE Strings(_)
Strings(n) ==
    IF n = 0 THEN {<<>>}
    ELSE LET shorter == Strings(n - 1)
         IN  shorter \cup {Append(s, b) : s \in {t \in shorter : Len(t) = n - 1},
                                           b \in Alphabet}

Reserved == {MatchArms[i].word : i \in 1..Len(MatchArms)}

Samples ==
    Reserved \cup
    { B(<<"a","n","d","1">>), B(<<"e","n","d","_">>), B(<<"i","f","f","y">>),
      B(<<"E","n","d">>), B(<<"I","F">>), B(<<"S","e","l","f">>),
      B(<<"N","I","L">>), B(<<"N","o","t">>),
      B(<<"f","o","o","_","b","a","r","2">>), B(<<"_">>), B(<<"_","1">>),
      B(<<"e","n","d",")">>), B(<<"a"," ","a">>), B(<<"x","\n","o","r","_">>),
      B(<<"x"," ","i","f"," ","x">>),
      <<200>>, <<97, 200>>, <<97, 195, 169>>, <<97, 195, 169, 41, 98>> }

Inputs == Samples \cup Strings(MaxLen)

----------------------------------------------------------------------------
(* The driver loop: visit the current state, apply the transition.         *)

NoVisit == [by |-> "None", kind |-> "None", from |-> 0, self |-> Root,
            interner |-> <<>>, outlen |-> 0]

Init ==
    /\ buffer \in Inputs
    /\ offset = 0
    /\ state = Root
    /\ interner = <<>>
    /\ output = <<>>
    /\ panic = "none"
    /\ runs = 1
    /\ spans = <<>>
    /\ entered = 0
    /\ first = 0
    /\ classified = <<>>
    /\ steps = 0
    /\ last = NoVisit

\* Apply transition t, returned by a visit of the current state.
Apply(t) ==
    /\ panic' = t.panic
    /\ state' = t.state
    /\ offset' = IF t.consume THEN offset + 1 ELSE offset
    /\ output' = output \o t.output
    /\ interner' = t.interner
    /\ spans' = spans \o t.slice
    /\ entered' = IF state.tag = "Root" THEN offset ELSE entered
    /\ first' = IF state.tag = "Root" THEN offset' ELSE first
    /\ classified' =
         IF state.tag = "Word" /\ t.output # <<>>
         THEN Append(classified, [token |-> t.output[1].token,
                                  text |-> SubSeq(buffer, entered + 1, offset)])
         ELSE classified
    /\ steps' = IF state.tag # "Word" THEN 0
                ELSE IF t.consume THEN steps + 1 ELSE steps
    /\ last' = [by |-> state.tag,
                kind |-> IF t.panic # "none" THEN "Panic"
                         ELSE IF t.consume THEN "Step" ELSE "Resume",
                from |-> offset, self |-> state,
                interner |-> interner, outlen |-> Len(output)]
    /\ UNCHANGED <<buffer, runs>>

\* The driver visits Root; at end of input the lex of this buffer is over.
RootVisit ==
    /\ panic = "none"
    /\ state.tag = "Root"
    /\ offset < Len(buffer)
    /\ Apply(Root_visit(buffer, offset, interner))

\* The driver visits the Word sub-state.
WordVisit ==
    /\ panic = "none"
    /\ state.tag = "Word"
    /\ Apply(visit(state, buffer, offset, interner))

\* The driver visits a sibling sub-state.
OtherVisit ==
    /\ panic = "none"
    /\ state.tag = "Other"
    /\ Apply(Other_visit(state, buffer, offset, interner))

\* The lex of the buffer is over.
Finished == panic = "none" /\ state.tag = "Root" /\ offset = Len(buffer)

\* The session lexes another buffer with the same interner.
NewInput ==
    /\ Finished
    /\ runs < MaxRuns
    /\ \E b \in Inputs : buffer' = b
    /\ offset' = 0
    /\ state' = Root
    /\ output' = <<>>
    /\ spans' = <<>>
    /\ steps' = 0
    /\ last' = NoVisit
    /\ runs' = runs + 1
    /\ UNCHANGED <<interner, panic, entered, first, classified>>

Visit == RootVisit \/ WordVisit \/ OtherVisit

Next == Visit \/ NewInput

Spec == Init /\ [][Next]_vars

\* The values of u8.
Bytes == 0..255

\* Every byte alone, and every byte after a `_`: Root sees each of the 256
\* bytes, Word sees each of them as the byte after a word start.
ByteInit ==
    /\ buffer \in {<<b>> : b \in Bytes} \cup {<<95, b>> : b \in Bytes}
    /\ offset = 0
    /\ state = Root
    /\ interner = <<>>
    /\ output = <<>>
    /\ panic = "none"
    /\ runs = 1
    /\ spans = <<>>
    /\ entered = 0
    /\ first = 0
    /\ classified = <<>>
    /\ steps = 0
    /\ last = NoVisit

\* The lex of one buffer of ByteInit.
ByteSpec == ByteInit /\ [][Visit]_vars

\* The lex of one buffer: the driver loop does not stop while there is a state
\* to visit.
LexSpec == Init /\ [][Visit]_vars /\ WF_vars(Visit)

----------------------------------------------------------------------------
(* The vocabulary of the properties, taken from the design document and    *)
(* not from the code above.                                                *)

\* A word-continuation byte: an ASCII letter, an ASCII digit or `_`.
WordByte(c) == c \in (48..57) \cup (65..90) \cup (97..122) \cup {95}

\* A word-start byte: an ASCII letter or `_`.
WordStartByte(c) == c \in (65..90) \cup (97..122) \cup {95}

\* The cursor at offset off is on a word boundary: end of input, or a byte
\* that is not a word-continuation byte.
Boundary(buf, off) == off >= Len(buf) \/ ~WordByte(buf[off + 1])

\* The driver's last iteration visited the Word sub-state.
WordVisited == last.by = "Word"

\* The token the last iteration surfaced, when it surfaced one.
LastToken == output[Len(output)]

----------------------------------------------------------------------------
\* C1: whenever Word is visited with the cursor at end of input or on a byte
\* that is not a word-continuation byte, the visit returns Resume(Root, token):
\* one token is surfaced, the next state is Root, and the cursor offset after
\* the transition is applied is the offset before the visit, so that Root sees
\* the boundary byte next.
C1_BoundaryLeftForRoot ==
    (WordVisited /\ Boundary(buffer, last.from)) =>
        /\ last.kind = "Resume"
        /\ state = Root
        /\ offset = last.from
        /\ Len(output) = last.outlen + 1

\* `end)`: Keyword(End) has been surfaced and Root is next, the cursor on `)`.
C1_Witness ==
    /\ buffer = B(<<"e","n","d",")">>)
    /\ WordVisited /\ last.kind = "Resume" /\ Boundary(buffer, last.from)
    /\ Len(output) = 1
    /\ LastToken.token = TokenKind("Keyword", "End", 0)
    /\ state = Root
    /\ peek(buffer, offset) = <<41>>

\* C2: whenever Word is visited with the cursor on a word-continuation byte,
\* the visit returns Step(self): the next state is the same Word state
\* (start_offset and pos unchanged), no token is surfaced, and the driver
\* consumes exactly one byte.
C2_ContinuationSteps ==
    (WordVisited /\ ~Boundary(buffer, last.from)) =>
        /\ last.kind = "Step"
        /\ state = last.self
        /\ state.tag = "Word"
        /\ Len(output) = last.outlen
        /\ offset = last.from + 1

\* `end_`: the visit on `_` stepped, the state still the Word entered at 0.
C2_Witness ==
    /\ buffer = B(<<"e","n","d","_">>)
    /\ WordVisited /\ last.kind = "Step"
    /\ last.from = 3 /\ offset = 4
    /\ state = at(buffer, 0)
    /\ output = <<>>

----------------------------------------------------------------------------
(* The classification tables of the design document (section 6), each word *)
(* with the tag of its category.                                           *)

KeywordTable ==
    << <<w_let, "Let">>, <<w_if, "If">>, <<w_then, "Then">>, <<w_else, "Else">>,
       <<w_end, "End">>, <<w_for, "For">>, <<w_in, "In">>, <<w_do, "Do">>,
       <<w_while, "While">>, <<w_function, "Function">>, <<w_return, "Return">>,
       <<w_break, "Break">>, <<w_self, "Self_">> >>

LiteralTable == << <<w_nil, "Nil">>, <<w_true, "True">>, <<w_false, "False">> >>

OperatorTable == << <<w_not, "Not">>, <<w_and, "And">>, <<w_or, "Or">> >>

Words(table) == {table[i][1] : i \in 1..Len(table)}

ReservedWords == Words(KeywordTable) \cup Words(LiteralTable) \cup Words(OperatorTable)

\* s matches [A-Za-z_][A-Za-z0-9_]* and is in none of the three tables.
IdentifierText(s) ==
    /\ Len(s) >= 1
    /\ WordStartByte(s[1])
    /\ \A i \in 1..Len(s) : WordByte(s[i])
    /\ s \notin ReservedWords

\* The buffer, lexed alone to its end, gave exactly one token, of this kind and tag.
LexedAs(kind, tag) ==
    /\ Len(output) = 1
    /\ output[1].token.kind = kind
    /\ output[1].token.tag = tag

\* C3: lexing a word of the keyword table alone yields exactly one token,
\* Keyword with the tag of that word; a word of the literal table yields
\* exactly one Literal with its tag, a word of the operator table exactly one
\* Operator with its tag.
C3_ReservedWordsClassified ==
    Finished =>
        /\ \A i \in 1..Len(KeywordTable) :
              buffer = KeywordTable[i][1] => LexedAs("Keyword", KeywordTable[i][2])
        /\ \A i \in 1..Len(LiteralTable) :
              buffer = LiteralTable[i][1] => LexedAs("Literal", LiteralTable[i][2])
        /\ \A i \in 1..Len(OperatorTable) :
              buffer = OperatorTable[i][1] => LexedAs("Operator", OperatorTable[i][2])

\* `or`, lexed to its end after another buffer, gave Operator(Or).
C3_Witness ==
    /\ Finished /\ runs = 2
    /\ buffer = w_or
    /\ WordVisited /\ last.kind = "Resume"
    /\ output = <<[token |-> TokenKind("Operator", "Or", 0), pos |-> PosAt(buffer, 0)]>>

\* The handles of the Identifier tokens the session made from text s.
HandlesOf(s) ==
    {classified[i].token.symbol :
        i \in {j \in 1..Len(classified) : /\ classified[j].text = s
                                          /\ classified[j].token.kind = "Identifier"}}

\* C4: lexing alone a string that matches [A-Za-z_][A-Za-z0-9_]* and is in none
\* of the tables yields exactly one token, an Identifier, made from the slice
\* [0, len); every lex of the same string in the session gives the same handle.
C4_IdentifierClassified ==
    (Finished /\ IdentifierText(buffer)) =>
        /\ LexedAs("Identifier", "")
        /\ spans = << <<0, Len(buffer)>> >>
        /\ output[1].token.symbol >= 1
        /\ HandlesOf(buffer) = {output[1].token.symbol}

\* `foo_bar2` lexed twice in one session: one Identifier each time, and the
\* second lex returned the handle of the first.
C4_Witness ==
    /\ Finished /\ runs = 2
    /\ buffer = B(<<"f","o","o","_","b","a","r","2">>)
    /\ Len(classified) = 2
    /\ classified[1].text = buffer /\ classified[2].text = buffer
    /\ classified[1].token = classified[2].token
    /\ LexedAs("Identifier", "")
    /\ last.interner = interner

----------------------------------------------------------------------------
\* The places in classified of the Identifier tokens of the session.
Identifiers == {i \in 1..Len(classified) : classified[i].token.kind = "Identifier"}

\* C5: any two Identifier tokens of a session carry equal handles if and only
\* if their word texts are byte-equal, and every handle issued so far still
\* denotes, in the interner as it is now, the text it was issued for.
C5_HandleEqualityIsTextEquality ==
    /\ \A i, j \in Identifiers :
          (classified[i].token.symbol = classified[j].token.symbol)
              <=> (classified[i].text = classified[j].text)
    /\ \A i \in Identifiers :
          /\ classified[i].token.symbol \in 1..Len(interner)
          /\ interner[classified[i].token.symbol] = classified[i].text

\* `a a` and then `_1`: the two `a` share handle 1, `_1` got handle 2, and
\* handle 1 still denotes `a` after the later interning.
C5_Witness ==
    /\ Finished /\ runs = 2
    /\ Len(classified) = 3 /\ Identifiers = {1, 2, 3}
    /\ classified[1].text = <<97>> /\ classified[2].text = <<97>>
    /\ classified[3].text = B(<<"_","1">>)
    /\ classified[1].token.symbol = 1 /\ classified[2].token.symbol = 1
    /\ classified[3].token.symbol = 2
    /\ interner = << <<97>>, B(<<"_","1">>) >>

\* The places in output of the tokens made by the Word sub-state.
WordTokens == {k \in 1..Len(output) : output[k].token.kind # "Other"}

\* C6: the slice Word classifies is the maximal word run from start_offset: it
\* runs to the first offset at or after start_offset that is a boundary.  So a
\* reserved word directly followed by a continuation byte (`and1`, `end_`,
\* `iffy`) is one Identifier made from the whole run.
C6_MaximalRun ==
    /\ \A k \in WordTokens :
          /\ \A j \in spans[k][1] .. (spans[k][2] - 1) : ~Boundary(buffer, j)
          /\ Boundary(buffer, spans[k][2])
          /\ spans[k][1] <= spans[k][2]
    /\ (Finished /\ buffer \in {B(<<"a","n","d","1">>), B(<<"e","n","d","_">>),
                                B(<<"i","f","f","y">>)}) =>
          /\ LexedAs("Identifier", "")
          /\ spans = << <<0, Len(buffer)>> >>

\* `and1` gave one Identifier made from all four bytes.
C6_Witness ==
    /\ Finished
    /\ buffer = B(<<"a","n","d","1">>)
    /\ Len(output) = 1 /\ WordTokens = {1}
    /\ output[1].token.kind = "Identifier"
    /\ spans[1] = <<0, 4>>
    /\ classified[Len(classified)].text = buffer

\* C7: the position of the token Word produces is the cursor position captured
\* by Word::at when Root entered the sub-state, the position of the first byte
\* of the word; the Steps in between leave it unchanged, and it is not the
\* position of the boundary.  `let` gives a token at offset 0.
C7_TokenPositionIsEntryPosition ==
    /\ state.tag = "Word" =>
          /\ state.pos = PosAt(buffer, entered)
          /\ state.start_offset = entered
    /\ (WordVisited /\ last.kind = "Resume") =>
          /\ LastToken.pos = PosAt(buffer, entered)
          /\ LastToken.pos = last.self.pos
          /\ LastToken.pos.offset < offset
    /\ (Finished /\ buffer = w_let) => output[1].pos = PosAt(buffer, 0)

\* `x`, newline, `or_`: the third token starts line 2, at offset 2, and was
\* produced with the cursor at offset 5.
C7_Witness ==
    /\ buffer = B(<<"x","\n","o","r","_">>)
    /\ WordVisited /\ last.kind = "Resume" /\ last.from = 5
    /\ Len(output) = 3
    /\ LastToken.pos = [offset |-> 2, line |-> 2, column |-> 0]
    /\ entered = 2 /\ steps = 2

----------------------------------------------------------------------------
\* The text of the word the last Word visit classified.
LastText == classified[Len(classified)].text

\* The Word visit that just resumed Root returned, before it, as many Steps as
\* the word run has bytes from the offset of the first visit on; with the bytes
\* consumed before that first visit they make up the word run.
StepsCountRun ==
    (WordVisited /\ last.kind = "Resume") =>
        /\ steps = last.from - first
        /\ \A j \in first .. (last.from - 1) : ~Boundary(buffer, j)
        /\ Boundary(buffer, last.from)
        /\ (first - entered) + steps = Len(LastText)
        /\ steps <= Len(buffer)

----------------------------------------------------------------------------
Ascii(bs) == \A i \in 1..Len(bs) : bs[i] <= 127

\* A token Word may produce: a reserved word's kind and tag, or an Identifier
\* whose handle denotes an ASCII text of the interner.
ValidWordToken(tk) ==
    \/ \E i \in 1..Len(KeywordTable) : tk = TokenKind("Keyword", KeywordTable[i][2], 0)
    \/ \E i \in 1..Len(LiteralTable) : tk = TokenKind("Literal", LiteralTable[i][2], 0)
    \/ \E i \in 1..Len(OperatorTable) : tk = TokenKind("Operator", OperatorTable[i][2], 0)
    \/ /\ tk.kind = "Identifier"
       /\ tk.symbol \in 1..Len(interner)
       /\ Ascii(interner[tk.symbol])

\* C9: the Word sub-state has no error outcome: the lex never aborts, every
\* visit of Word returns Step or Resume, a Resume carries a valid token, and
\* the text handed to from_utf8 in the identifier arm is always ASCII, so its
\* expect never fails.
C9_NoErrorOutcome ==
    /\ panic = "none"
    /\ WordVisited => last.kind \in {"Step", "Resume"}
    /\ (WordVisited /\ last.kind = "Resume") =>
          /\ ValidWordToken(LastToken.token)
          /\ Ascii(LastText)
    /\ \A i \in 1..Len(interner) : Ascii(interner[i]) /\ from_utf8_ok(interner[i])

\* `a` followed by the byte 200: Word was visited on the non-ASCII byte and
\* resumed with the Identifier `a`, nothing aborted.
C9_Witness ==
    /\ buffer = <<97, 200>>
    /\ WordVisited /\ last.kind = "Resume" /\ last.from = 1
    /\ peek(buffer, last.from) = <<200>>
    /\ LastToken.token = TokenKind("Identifier", "", 1)
    /\ interner = << <<97>> >>
    /\ panic = "none"

\* C10: classifying the same text twice in a session, whatever is classified
\* in between, gives the same TokenKind both times (variant, tag and, for an
\* identifier, handle), and classifying an identifier text that was classified
\* before leaves the interner as it was.
C10_ClassificationIdempotent ==
    /\ \A i, j \in 1..Len(classified) :
          classified[i].text = classified[j].text
              => classified[i].token = classified[j].token
    /\ ( /\ WordVisited /\ last.kind = "Resume"
         /\ LastToken.token.kind = "Identifier"
         /\ \E i \in 1..(Len(classified) - 1) : classified[i].text = LastText )
       => interner = last.interner

\* `x if x`: the second `x` got the token of the first, `if` in between, and
\* the interner was left as it was.
C10_Witness ==
    /\ buffer = B(<<"x"," ","i","f"," ","x">>)
    /\ WordVisited /\ last.kind = "Resume" /\ Finished
    /\ Len(classified) = 3
    /\ classified[1].text = classified[3].text
    /\ classified[1].token = TokenKind("Identifier", "", 1)
    /\ classified[3].token = classified[1].token
    /\ classified[2].token = TokenKind("Keyword", "If", 0)
    /\ interner = last.interner /\ Len(interner) = 1

----------------------------------------------------------------------------
\* s is a table word with the case of at least one letter changed: it is in no
\* table, and is a table word once its letters are made lower-case.
CaseVariant(s) == s \notin ReservedWords /\ to_ascii_lowercase(s) \in ReservedWords

\* C11: reserved-word matching is exact-byte and case-sensitive: a word that
\* differs from a table entry only in the case of some letter (`End`, `IF`,
\* `Self`, `NIL`, `Not`) is classified as Identifier, never as Keyword,
\* Literal or Operator.
C11_CaseSensitive ==
    /\ \A i \in 1..Len(classified) :
          CaseVariant(classified[i].text) =>
              /\ classified[i].token.kind = "Identifier"
              /\ classified[i].token.tag = ""
              /\ interner[classified[i].token.symbol] = classified[i].text
    /\ (Finished /\ buffer \in {B(<<"E","n","d">>), B(<<"I","F">>),
                                B(<<"S","e","l","f">>), B(<<"N","I","L">>),
                                B(<<"N","o","t">>)}) =>
          /\ CaseVariant(buffer)
          /\ LexedAs("Identifier", "")

\* `end` and then `End` in one session: Keyword(End), then an Identifier.
C11_Witness ==
    /\ Finished /\ runs = 2
    /\ buffer = B(<<"E","n","d">>)
    /\ Len(classified) = 2
    /\ classified[1].text = w_end
    /\ classified[1].token = TokenKind("Keyword", "End", 0)
    /\ classified[2].text = buffer
    /\ classified[2].token = TokenKind("Identifier", "", 1)

----------------------------------------------------------------------------
AsciiLetter(c) == c \in (65..90) \cup (97..122)

AsciiDigit(c) == c \in 48..57

\* C12: for every byte 0..255, is_word_start holds exactly for the ASCII
\* letters and `_`, is_word exactly for the ASCII letters, the ASCII digits and
\* `_`; so is_word_start implies is_word, the bytes with is_word and not
\* is_word_start are exactly the ASCII digits, and no byte from 128 up
\* satisfies either.  Root enters Word, and Word steps, on exactly these bytes.
C12_BytePredicates ==
    /\ \A i \in 1..Len(buffer) :
          LET c == buffer[i] IN
          /\ c \in Bytes
          /\ is_word_start(c) <=> (AsciiLetter(c) \/ c = 95)
          /\ is_word(c) <=> (AsciiLetter(c) \/ AsciiDigit(c) \/ c = 95)
          /\ is_word_start(c) => is_word(c)
          /\ (is_word(c) /\ ~is_word_start(c)) <=> AsciiDigit(c)
          /\ c >= 128 => (~is_word(c) /\ ~is_word_start(c))
    /\ last.by = "Root" =>
          ((state.tag = "Word") <=>
              (AsciiLetter(buffer[last.from + 1]) \/ buffer[last.from + 1] = 95))
    /\ (WordVisited /\ last.from < Len(buffer)) =>
          ((last.kind = "Step") <=>
              LET c == buffer[last.from + 1]
              IN  AsciiLetter(c) \/ AsciiDigit(c) \/ c = 95)

\* `_9`: Word stepped over the digit 9, a byte that is_word accepts and
\* is_word_start does not.
C12_Witness ==
    /\ buffer = <<95, 57>>
    /\ WordVisited /\ last.kind = "Step" /\ last.from = 1
    /\ is_word(buffer[2]) /\ ~is_word_start(buffer[2])
    /\ offset = 2

----------------------------------------------------------------------------
\* C13: whenever the automaton is in the Word sub-state,
\* start_offset <= offset <= buffer length and every byte of the buffer in
\* [start_offset, offset) is an ASCII word-continuation byte; so the slice
\* taken on the produce path is in bounds and slicing never aborts.
C13_WordSliceInBounds ==
    /\ state.tag = "Word" =>
          /\ state.start_offset <= offset
          /\ offset <= Len(buffer)
          /\ \A j \in state.start_offset .. (offset - 1) :
                WordByte(buffer[j + 1]) /\ buffer[j + 1] <= 127
    /\ panic # "slice"
    /\ (WordVisited /\ last.kind = "Resume") =>
          /\ 0 <= spans[Len(spans)][1]
          /\ spans[Len(spans)][1] <= spans[Len(spans)][2]
          /\ spans[Len(spans)][2] <= Len(buffer)
          /\ spans[Len(spans)] = <<last.self.start_offset, last.from>>

\* `x`, newline, `or_`: in Word, entered at offset 2, the cursor at offset 4
\* of 5, `or` behind it.
C13_Witness ==
    /\ buffer = B(<<"x","\n","o","r","_">>)
    /\ state.tag = "Word"
    /\ state.start_offset = 2 /\ offset = 4
    /\ SubSeq(buffer, state.start_offset + 1, offset) = w_or

----------------------------------------------------------------------------
\* What one iteration of the driver does to the cursor: the offset after it is
\* the offset before it, or one more when the transition was a Step; an
\* iteration in which Word surfaced a token left it where it was.
CursorAfterVisit ==
    last.by # "None" =>
        /\ last.kind = "Step" => offset = last.from + 1
        /\ last.kind = "Resume" => offset = last.from
        /\ offset >= last.from
        /\ (WordVisited /\ Len(output) > last.outlen) => offset = last.from
        /\ (WordVisited /\ Len(output) = last.outlen) => offset = last.from + 1

\* C14: a visit of Word does not move the cursor: on the Resume path the offset
\* after the iteration is the offset before it, on the Step path the only
\* change is the driver's advance by one byte; the buffer is never changed and,
\* while a buffer is lexed, the offset never decreases.
C14_CursorOnlyAdvancedByStep ==
    /\ []CursorAfterVisit
    /\ [][runs' = runs =>
            /\ buffer' = buffer
            /\ offset' >= offset
            /\ offset' <= offset + 1
            /\ (state.tag = "Word" /\ state'.tag = "Root") => offset' = offset
            /\ (state.tag = "Word" /\ state'.tag = "Word") => offset' = offset + 1]_vars

\* `end)`: Word stepped twice, to offset 3, and resumed there, the offset left
\* at 3.
C14_Witness ==
    /\ buffer = B(<<"e","n","d",")">>)
    /\ WordVisited /\ last.kind = "Resume"
    /\ steps = 2
    /\ last.from = 3 /\ offset = 3
    /\ first = 1

----------------------------------------------------------------------------
\* The tokens of output that Word made from a slice starting at offset s: the
\* tokens of the traversal entered at s.
TokensFrom(s) == {k \in WordTokens : spans[k][1] = s}

\* C15: a traversal of Word, from Word::at to the return to Root, emits
\* exactly one token: none while it lasts and none on a Step, one on the
\* Resume, after which the state is Root and the Word state is gone; no two
\* tokens come from one traversal.
C15_OneTokenPerTraversal ==
    /\ state.tag = "Word" => TokensFrom(state.start_offset) = {}
    /\ (WordVisited /\ last.kind = "Step") =>
          /\ Len(output) = last.outlen
          /\ state = last.self
    /\ (WordVisited /\ last.kind = "Resume") =>
          /\ Len(output) = last.outlen + 1
          /\ state = Root
          /\ TokensFrom(last.self.start_offset) = {Len(output)}
    /\ WordVisited => last.kind \in {"Step", "Resume"}
    /\ \A j, k \in WordTokens : spans[j][1] = spans[k][1] => j = k

\* `x if x`: three traversals, three tokens, the third just produced and Root
\* the state again.
C15_Witness ==
    /\ buffer = B(<<"x"," ","i","f"," ","x">>)
    /\ WordVisited /\ last.kind = "Resume"
    /\ state = Root
    /\ Cardinality(WordTokens) = 3
    /\ TokensFrom(0) = {1} /\ TokensFrom(2) = {3} /\ TokensFrom(5) = {5}

----------------------------------------------------------------------------
\* The words of the arms of to_token that produce the given kind.
ArmWords(kind) ==
    {MatchArms[i].word : i \in {j \in 1..Len(MatchArms) : MatchArms[j].kind = kind}}

\* C16: the keyword, literal and operator tables are pairwise disjoint and no
\* word has two arms, so a word maps to one TokenKind whatever the order in
\* which the arms are tried: the token of every classified word is the token
\* of every arm that matches it.
C16_TablesDisjoint ==
    /\ ArmWords("Keyword") \cap ArmWords("Literal") = {}
    /\ ArmWords("Keyword") \cap ArmWords("Operator") = {}
    /\ ArmWords("Literal") \cap ArmWords("Operator") = {}
    /\ \A i, j \in 1..Len(MatchArms) :
          MatchArms[i].word = MatchArms[j].word => i = j
    /\ \A i \in 1..Len(classified) : \A a \in 1..Len(MatchArms) :
          MatchArms[a].word = classified[i].text =>
              classified[i].token = TokenKind(MatchArms[a].kind, MatchArms[a].tag, 0)

\* `in` lexed to its end: Keyword(In).
C16_Witness ==
    /\ Finished
    /\ buffer = w_in
    /\ LexedAs("Keyword", "In")
    /\ LastText = w_in
    /\ Cardinality({a \in 1..Len(MatchArms) : MatchArms[a].word = LastText}) = 1

----------------------------------------------------------------------------
----------------------------------------------------------------------------
\* The texts of the Identifier tokens produced so far in the session.
IdentifierTexts == {classified[i].text : i \in Identifiers}

\* C18: the interner changes only when an identifier not seen before in the
\* session is produced, and then by that text alone: a Step, a visit of Root
\* or of a sibling, and a Resume whose word is in a table leave it as it was.
\* Reserved words are never interned, and the interner holds exactly the
\* distinct identifier texts produced so far, each once.
C18_InternerFrame ==
    /\ (last.by # "None" /\ last.kind = "Step") => interner = last.interner
    /\ (last.by # "None" /\ ~WordVisited) => interner = last.interner
    /\ (WordVisited /\ last.kind = "Resume" /\ LastText \in ReservedWords) =>
          interner = last.interner
    /\ (last.by # "None" /\ interner # last.interner) =>
          /\ WordVisited /\ last.kind = "Resume"
          /\ LastToken.token.kind = "Identifier"
          /\ \A i \in 1..(Len(classified) - 1) : classified[i].text # LastText
          /\ interner = Append(last.interner, LastText)
    /\ \A i \in 1..Len(interner) : interner[i] \notin ReservedWords
    /\ {interner[i] : i \in 1..Len(interner)} = IdentifierTexts
    /\ Len(interner) = Cardinality(IdentifierTexts)

\* `x if x`: `if` has just been produced, and the interner still holds `x`
\* alone.
C18_Witness ==
    /\ buffer = B(<<"x"," ","i","f"," ","x">>)
    /\ WordVisited /\ last.kind = "Resume"
    /\ LastText = w_if
    /\ LastToken.token = TokenKind("Keyword", "If", 0)
    /\ last.interner = << <<120>> >>
    /\ interner = last.interner

====
